---- MODULE Spec2Model ----
(***************************************************************************)
(* Model of fastui/components/display.py: the display components           *)
(* DisplayLookup, Display and Details, the `_fill_fields` validator that   *)
(* resolves the `fields` of a Details, and the JSON schema hook of Details.*)
(*                                                                         *)
(* Every operation of the file is a constructor call or a class method:    *)
(* one behaviour of the model is one call, from its arguments (`args`) to  *)
(* the object it returns (`result`) or the ValidationError it raises.      *)
(***************************************************************************)
EXTENDS Integers, Sequences, FiniteSets

VARIABLES pc, args, result
vars == <<pc, args, result>>

-----------------------------------------------------------------------------
(* Python values.  An optional value (Union[X, None]) is None or Some(x).  *)
None == <<>>
Some(v) == <<v>>
Get(o) == o[1]

(* Truthiness of an Optional[str]: None and '' are falsy. *)
Truthy(o) == o # None /\ Get(o) # ""

Range(s) == {s[i] : i \in 1..Len(s)}
SeqsUpTo(S, n) == UNION {[1..k -> S] : k \in 0..n}

-----------------------------------------------------------------------------
(* Bounds of the model. *)
MaxStored == 2
MaxComputed == 1
MaxFields == 2

(* Interval(ge=0, le=100) of table_width_percent. *)
WidthGe == 0
WidthLe == 100

-----------------------------------------------------------------------------
(* class DisplayMode(str, enum.Enum): the values of the enumeration. *)
DisplayMode ==
    {"auto", "plain", "datetime", "date", "duration", "as_title", "markdown",
     "json", "inline_code", "currency"}

(* DisplayBase.mode: Union[DisplayMode, None]. *)
ValidMode(mode) == mode = None \/ Get(mode) \in DisplayMode

(* Variant: `field` declared with a minimum length of 1. *)
ValidFieldRequireNonEmpty(field) == field # None /\ Get(field) # ""

(* DisplayLookup.field: str, required and otherwise unconstrained. *)
ValidField(field) == field # None

(* Variant: Interval(gt=0, lt=100), the bounds excluded. *)
ValidWidthExclusive(w) == w = None \/ (Get(w) > WidthGe /\ Get(w) < WidthLe)

(* DisplayLookup.table_width_percent:
   Union[Annotated[int, Interval(ge=0, le=100)], None]. *)
ValidWidth(w) == w = None \/ (Get(w) >= WidthGe /\ Get(w) <= WidthLe)

(* Validation of the keyword arguments of DisplayLookup(...); kw.field is
   None when the argument is missing. *)
ValidDisplayLookup(kw) ==
    /\ ValidMode(kw.mode)
    /\ ValidField(kw.field)
    /\ ValidWidth(kw.table_width_percent)

(* The DisplayLookup object built from valid keyword arguments. *)
NewDisplayLookup(kw) ==
    [kind |-> "DisplayLookup",
     mode |-> kw.mode,
     title |-> kw.title,
     on_click |-> kw.on_click,
     field |-> Get(kw.field),
     table_width_percent |-> kw.table_width_percent]

(* Validation of the keyword arguments of Display(...); kw.value is None
   when the argument is missing. *)
ValidDisplay(kw) == ValidMode(kw.mode) /\ kw.value # None

(* The Display object built from valid keyword arguments. *)
NewDisplay(kw) ==
    [kind |-> "Display",
     mode |-> kw.mode,
     title |-> kw.title,
     on_click |-> kw.on_click,
     value |-> Get(kw.value),
     type |-> "Display"]

(* Details.fields: List[Union[DisplayLookup, Display]]: each item is
   validated as the component its keys select. *)
ValidItem(kw) ==
    IF kw.kind = "DisplayLookup" THEN ValidDisplayLookup(kw) ELSE ValidDisplay(kw)

NewItem(kw) ==
    IF kw.kind = "DisplayLookup" THEN NewDisplayLookup(kw) ELSE NewDisplay(kw)

-----------------------------------------------------------------------------
(* A Python dict is the sequence of its items [name, title] in insertion
   order, with distinct names; the value of an item is the FieldInfo or
   ComputedFieldInfo of the attribute, of which only `title` is read. *)
Keys(d) == {d[i].name : i \in 1..Len(d)}
HasKey(d, k) == \E i \in 1..Len(d) : d[i].name = k
IsDict(d) == \A i, j \in 1..Len(d) : d[i].name = d[j].name => i = j

(* d.get(k): the item of key k, or None. *)
DictGet(d, k) ==
    IF HasKey(d, k) THEN Some(CHOOSE e \in Range(d) : e.name = k) ELSE None

(* Variant: {**b, **a}, the two dicts merged in the other order. *)
DictMergeSwapped(a, b) ==
    LET over(e) == IF HasKey(a, e.name) THEN Get(DictGet(a, e.name)) ELSE e
    IN  [i \in 1..Len(b) |-> over(b[i])] \o
            SelectSeq(a, LAMBDA e : ~HasKey(b, e.name))

(* {**a, **b}: the keys of a in a's order, taking b's value where b has the
   key too, then the keys of b that a has not, in b's order. *)
DictMerge(a, b) ==
    LET over(e) == IF HasKey(b, e.name) THEN Get(DictGet(b, e.name)) ELSE e
    IN  [i \in 1..Len(a) |-> over(a[i])] \o
            SelectSeq(b, LAMBDA e : ~HasKey(a, e.name))

-----------------------------------------------------------------------------
(* Details._fill_fields, the `after` model validator. *)

(* Keyword arguments of a constructor call with every optional one omitted. *)
LookupKw(field, title) ==
    [kind |-> "DisplayLookup", mode |-> None, title |-> title, on_click |-> None,
     field |-> Some(field), table_width_percent |-> None]

(* Variant: the synthesized DisplayLookup is built from the name alone. *)
SynthesizeNoTitle(name, info) == NewDisplayLookup(LookupKw(name, None))

(* DisplayLookup(field=name, title=field.title) of the comprehension. *)
Synthesize(name, info) == NewDisplayLookup(LookupKw(name, info.title))

(* Variant: the title is assigned whether or not the item already has one. *)
FillTitleOverwrite(data, c) ==
    IF c.kind = "DisplayLookup"
    THEN LET pydantic_field == DictGet(data.model_fields, c.field)
         IN  IF pydantic_field # None /\ Truthy(Get(pydantic_field).title)
             THEN [c EXCEPT !.title = Get(pydantic_field).title]
             ELSE c
    ELSE c

(* Variant: an item without a pydantic title is titled with its field name. *)
FillTitleFallback(data, c) ==
    IF c.title # None
    THEN c
    ELSE IF c.kind = "DisplayLookup"
         THEN LET pydantic_field == DictGet(data.model_fields, c.field)
              IN  IF pydantic_field # None /\ Truthy(Get(pydantic_field).title)
                  THEN [c EXCEPT !.title = Get(pydantic_field).title]
                  ELSE [c EXCEPT !.title = Some(c.field)]
         ELSE c

(* The body of the loop for one item c of self.fields: items with a title
   are skipped by the generator; a DisplayLookup takes the title of the
   stored attribute it names when that title is truthy; a Display is
   assigned its own title. *)
FillTitle(data, c) ==
    IF c.title # None
    THEN c
    ELSE IF c.kind = "DisplayLookup"
         THEN LET pydantic_field == DictGet(data.model_fields, c.field)
              IN  IF pydantic_field # None /\ Truthy(Get(pydantic_field).title)
                  THEN [c EXCEPT !.title = Get(pydantic_field).title]
                  ELSE c
         ELSE [c EXCEPT !.title = c.title]

(* Variant: `if not self.fields`, an empty list treated like None. *)
FillFieldsFalsy(data, fields) ==
    LET merged == DictMerge(data.model_fields, data.model_computed_fields)
    IN  IF fields = None \/ Get(fields) = <<>>
        THEN Some([i \in 1..Len(merged) |-> Synthesize(merged[i].name, merged[i])])
        ELSE Some([i \in 1..Len(Get(fields)) |-> FillTitle(data, Get(fields)[i])])

(* Variant: nothing is synthesized for a data model without stored fields. *)
FillFieldsSkipEmpty(data, fields) ==
    LET merged == DictMerge(data.model_fields, data.model_computed_fields)
    IN  IF fields = None
        THEN IF data.model_fields = <<>>
             THEN None
             ELSE Some([i \in 1..Len(merged) |-> Synthesize(merged[i].name, merged[i])])
        ELSE Some([i \in 1..Len(Get(fields)) |-> FillTitle(data, Get(fields)[i])])

(* The value of self.fields when _fill_fields returns. *)
FillFields(data, fields) ==
    LET merged == DictMerge(data.model_fields, data.model_computed_fields)
    IN  IF fields = None
        THEN Some([i \in 1..Len(merged) |-> Synthesize(merged[i].name, merged[i])])
        ELSE Some([i \in 1..Len(Get(fields)) |-> FillTitle(data, Get(fields)[i])])

(* Validation of the arguments of Details(data=..., fields=...): every item
   of a given list is validated. *)
ValidDetails(kw) ==
    kw.fields = None \/ \A i \in 1..Len(Get(kw.fields)) : ValidItem(Get(kw.fields)[i])

(* The Details object: the validated fields, then the `after` validator. *)
NewDetails(kw) ==
    LET validated ==
            IF kw.fields = None
            THEN None
            ELSE Some([i \in 1..Len(Get(kw.fields)) |-> NewItem(Get(kw.fields)[i])])
    IN  [data |-> kw.data,
         fields |-> FillFields(kw.data, validated),
         class_name |-> None,
         type |-> "Details"]

-----------------------------------------------------------------------------
(* Details.__get_pydantic_json_schema__. *)

(* The fields Details declares, and whether each has no default. *)
DetailsCoreSchema ==
    << [name |-> "data", required |-> TRUE],
       [name |-> "fields", required |-> FALSE],
       [name |-> "class_name", required |-> FALSE],
       [name |-> "type", required |-> FALSE] >>

(* handler(core_schema): the object schema, `required` naming the fields
   without a default in declaration order. *)
Handler(core_schema) ==
    LET req == SelectSeq(core_schema, LAMBDA f : f.required)
    IN  [type |-> "object",
         properties |-> [i \in 1..Len(core_schema) |-> core_schema[i].name],
         required |-> [i \in 1..Len(req) |-> req[i].name]]

(* Variant: the schema of the handler returned as it is. *)
GetPydanticJsonSchemaUnchanged(core_schema) == Handler(core_schema)

(* schema_def['required'].append('fields') on the schema of the handler. *)
GetPydanticJsonSchema(core_schema) ==
    [Handler(core_schema) EXCEPT !.required = Append(@, "fields")]

-----------------------------------------------------------------------------
(* The arguments the calls are made with. *)

(* Data models: the attributes a model class declares, stored
   (model_fields) and computed (model_computed_fields), each with its
   declared title: none, the empty string, or a title of its own. *)
AttrNames == {"name", "age", "email"}

TitleOf(n) ==
    CASE n = "name" -> "Name"
      [] n = "age" -> "Age"
      [] OTHER -> "E-mail"

Infos ==
    UNION {{[name |-> n, title |-> t] : t \in {None, Some(""), Some(TitleOf(n))}} :
               n \in AttrNames}

Dicts(n) == {d \in SeqsUpTo(Infos, n) : IsDict(d)}

(* A computed attribute never has the name of a stored one. *)
DataModels ==
    {m \in [model_fields : Dicts(MaxStored), model_computed_fields : Dicts(MaxComputed)] :
        Keys(m.model_fields) \cap Keys(m.model_computed_fields) = {}}

(* Keyword arguments of DisplayLookup(...): `field` missing, empty or a
   name; the width unset, at, next to and between the bounds of its interval;
   a mode of the enumeration or not. *)
Modes == {None, Some("plain"), Some("bogus")}
Titles == {None, Some(""), Some("Custom")}
Events == {None, Some("GoToEvent")}
FieldArgs == {None, Some(""), Some("name"), Some("nickname")}
WidthArgs ==
    {None} \cup
    {Some(w) : w \in {WidthGe - 1, WidthGe, WidthGe + 1, WidthLe - 1, WidthLe, WidthLe + 1}}

DisplayLookupArgs ==
    [kind : {"DisplayLookup"}, mode : Modes, title : Titles, on_click : Events,
     field : FieldArgs, table_width_percent : WidthArgs]

(* Keyword arguments of Display(...): `value` missing or a JSON value. *)
ValueArgs == {None, Some("null"), Some("[1, 2]")}

DisplayArgs ==
    [kind : {"Display"}, mode : Modes, title : Titles, on_click : Events,
     value : ValueArgs]

(* Items of the `fields` argument of Details(...): lookups of "name", "age"
   and the empty field with and without a title, a lookup and a literal
   with every optional argument given, a lookup that fails validation, and
   a literal without a title. *)
FieldItems ==
    {LookupKw(f, t) : f \in {"name", "age"}, t \in {None, Some("Custom")}}
    \cup {LookupKw("", None)}
    \cup {[kind |-> "DisplayLookup", mode |-> Some("plain"), title |-> None,
           on_click |-> Some("GoToEvent"), field |-> Some("name"),
           table_width_percent |-> Some(WidthLe)],
          [kind |-> "DisplayLookup", mode |-> None, title |-> None,
           on_click |-> None, field |-> Some("age"),
           table_width_percent |-> Some(WidthLe + 1)]}
    \cup {[kind |-> "Display", mode |-> None, title |-> None, on_click |-> None,
           value |-> Some("null")],
          [kind |-> "Display", mode |-> Some("markdown"), title |-> Some("Custom"),
           on_click |-> Some("GoToEvent"), value |-> Some("[1, 2]")]}

DetailsArgs ==
    [data : DataModels,
     fields : {None} \cup {Some(fs) : fs \in SeqsUpTo(FieldItems, MaxFields)}]

-----------------------------------------------------------------------------
(* The calls.  pc is "idle" before the call, "returned" when it returned
   `result`, "raised" when it raised pydantic's ValidationError. *)

Init ==
    /\ pc = "idle"
    /\ args = [op |-> "none"]
    /\ result = None

(* A call of the DisplayLookup constructor. *)
ConstructDisplayLookup ==
    /\ pc = "idle"
    /\ \E kw \in DisplayLookupArgs :
        /\ args' = [op |-> "DisplayLookup", kw |-> kw]
        /\ IF ValidDisplayLookup(kw)
           THEN pc' = "returned" /\ result' = Some(NewDisplayLookup(kw))
           ELSE pc' = "raised" /\ result' = None

(* A call of the Display constructor. *)
ConstructDisplay ==
    /\ pc = "idle"
    /\ \E kw \in DisplayArgs :
        /\ args' = [op |-> "Display", kw |-> kw]
        /\ IF ValidDisplay(kw)
           THEN pc' = "returned" /\ result' = Some(NewDisplay(kw))
           ELSE pc' = "raised" /\ result' = None

(* Details(data=..., fields=...), or Details(data=...) when kw.fields is None *)
ConstructDetails ==
    /\ pc = "idle"
    /\ \E kw \in DetailsArgs :
        /\ args' = [op |-> "Details", kw |-> kw]
        /\ IF ValidDetails(kw)
           THEN pc' = "returned" /\ result' = Some(NewDetails(kw))
           ELSE pc' = "raised" /\ result' = None

(* Details.model_json_schema(), which calls __get_pydantic_json_schema__ *)
JsonSchema ==
    /\ pc = "idle"
    /\ args' = [op |-> "JsonSchema", kw |-> DetailsCoreSchema]
    /\ pc' = "returned"
    /\ result' = Some(GetPydanticJsonSchema(DetailsCoreSchema))

Next ==
    \/ ConstructDisplayLookup
    \/ ConstructDisplay
    \/ ConstructDetails
    \/ JsonSchema

Spec == Init /\ [][Next]_vars

-----------------------------------------------------------------------------
(* Properties.  They are stated on the arguments of the call and on what it
   returned, in the words of the specification: an attribute is declared
   when it is stored or computed, stored attributes first. *)

DetailsReturned == args.op = "Details" /\ pc = "returned"
FieldsUnset == args.kw.fields = None
FieldsIn == Get(args.kw.fields)
FieldsOut == Get(Get(result).fields)
Declared == args.kw.data.model_fields \o args.kw.data.model_computed_fields
DeclaredNamed(n) == {a \in Range(Declared) : a.name = n}

IsLookupArg(kw) == kw.kind = "DisplayLookup"
ModeInEnum(kw) == kw.mode = None \/ Get(kw.mode) \in DisplayMode
WidthInRange(kw) ==
    kw.table_width_percent = None \/
    (Get(kw.table_width_percent) >= 0 /\ Get(kw.table_width_percent) <= 100)

(* An item that meets the structural constraints of its component. *)
WellFormed(kw) ==
    /\ ModeInEnum(kw)
    /\ IF IsLookupArg(kw) THEN kw.field # None /\ WidthInRange(kw) ELSE kw.value # None

AllWellFormed == \A i \in 1..Len(FieldsIn) : WellFormed(FieldsIn[i])

(* C1: with `fields` unset, the resolved list has one DisplayLookup per
   declared attribute, its `field` the attribute's name, in declaration
   order: stored attributes first, then computed ones. *)
C1_InferenceCompleteness ==
    (DetailsReturned /\ FieldsUnset) =>
        /\ Get(result).fields # None
        /\ Len(FieldsOut) = Len(Declared)
        /\ \A i \in 1..Len(Declared) :
               /\ FieldsOut[i].kind = "DisplayLookup"
               /\ FieldsOut[i].field = Declared[i].name

C1_Witness ==
    /\ DetailsReturned /\ FieldsUnset
    /\ Len(args.kw.data.model_fields) >= 2
    /\ Len(args.kw.data.model_computed_fields) >= 1
    /\ Len(FieldsOut) = 3

(* C2: with `fields` unset, each synthesized DisplayLookup has the declared
   title of its attribute, and no title when the attribute declares none. *)
C2_TitleInheritance ==
    (DetailsReturned /\ FieldsUnset) =>
        \A i \in 1..Len(Declared) :
            i <= Len(FieldsOut) /\ FieldsOut[i].title = Declared[i].title

C2_Witness ==
    /\ DetailsReturned /\ FieldsUnset
    /\ \E i \in 1..Len(args.kw.data.model_fields) :
           /\ Truthy(args.kw.data.model_fields[i].title)
           /\ FieldsOut[i].title = args.kw.data.model_fields[i].title
    /\ \E a \in Range(args.kw.data.model_computed_fields) : Truthy(a.title)
    /\ \E i \in 1..Len(FieldsOut) : FieldsOut[i].title = None

(* C3: an explicit `fields` list, the empty one included, is resolved to a
   list of the same length with the same descriptors at the same positions;
   nothing is synthesized from the attributes of `data`. *)
SameDescriptor(kw, c) ==
    /\ c.kind = kw.kind
    /\ IF IsLookupArg(kw) THEN c.field = Get(kw.field) ELSE c.value = Get(kw.value)

C3_OrderPreservation ==
    (DetailsReturned /\ ~FieldsUnset) =>
        /\ Get(result).fields # None
        /\ Len(FieldsOut) = Len(FieldsIn)
        /\ \A i \in 1..Len(FieldsIn) : SameDescriptor(FieldsIn[i], FieldsOut[i])

C3_Witness ==
    /\ DetailsReturned /\ ~FieldsUnset
    /\ Len(FieldsIn) = 2 /\ Len(FieldsOut) = 2
    /\ FieldsIn[1].kind = "Display" /\ FieldsOut[1].kind = "Display"
    /\ FieldsIn[2].kind = "DisplayLookup" /\ FieldsOut[2].field = "age"
    /\ Len(Declared) = 3

(* C4: in an explicit list, a DisplayLookup without a title whose `field`
   names a declared attribute, stored or computed, with a declared title T
   (a non-empty string) ends with the title T. *)
C4_SelectiveTitleFill ==
    (DetailsReturned /\ ~FieldsUnset) =>
        \A i \in 1..Len(FieldsIn) :
            (IsLookupArg(FieldsIn[i]) /\ FieldsIn[i].title = None) =>
                \A a \in DeclaredNamed(Get(FieldsIn[i].field)) :
                    Truthy(a.title) => FieldsOut[i].title = a.title

C6_WidthBound ==
    (/\ args.op = "DisplayLookup" /\ pc # "idle"
     /\ args.kw.table_width_percent # None
     /\ args.kw.field # None /\ ModeInEnum(args.kw)) =>
        LET w == Get(args.kw.table_width_percent)
        IN  /\ pc = "returned" <=> (0 <= w /\ w <= 100)
            /\ pc = "returned" => Get(result).table_width_percent = Some(w)
            /\ pc = "raised" => result = None

C6_Witness ==
    /\ args.op = "DisplayLookup" /\ pc = "returned"
    /\ args.kw.table_width_percent = Some(0)
    /\ Get(result).table_width_percent = Some(0)

(* C7: on an explicit list, resolution leaves `field`, `mode`, `on_click`,
   `value` (and the width) of every item as given, keeps a title that was
   set, and leaves a Display without a title without one. *)
C7_Frame ==
    (DetailsReturned /\ ~FieldsUnset) =>
        \A i \in 1..Len(FieldsIn) :
            LET kw == FieldsIn[i]
                c == FieldsOut[i]
            IN  /\ c.kind = kw.kind
                /\ c.mode = kw.mode
                /\ c.on_click = kw.on_click
                /\ IF IsLookupArg(kw)
                   THEN /\ c.field = Get(kw.field)
                        /\ c.table_width_percent = kw.table_width_percent
                   ELSE /\ c.value = Get(kw.value)
                        /\ kw.title = None => c.title = None
                /\ kw.title # None => c.title = kw.title

C7_Witness ==
    /\ DetailsReturned /\ ~FieldsUnset
    /\ Len(FieldsIn) = 2
    /\ IsLookupArg(FieldsIn[1]) /\ FieldsIn[1].title = Some("Custom")
    /\ \E a \in Range(args.kw.data.model_fields) :
           a.name = Get(FieldsIn[1].field) /\ Truthy(a.title)
    /\ FieldsOut[1].title = Some("Custom")
    /\ ~IsLookupArg(FieldsIn[2]) /\ FieldsIn[2].title = None
    /\ FieldsOut[2].title = None

(* C8: in an explicit list of well-formed items, a DisplayLookup without a
   title whose `field` names no declared attribute, or one without a declared
   title, raises nothing: the Details is constructed, the item stays in
   place and its title stays unset. *)
Unresolvable(kw) ==
    /\ IsLookupArg(kw) /\ kw.title = None
    /\ \A a \in DeclaredNamed(Get(kw.field)) : a.title = None

C8_UnresolvedReference ==
    (args.op = "Details" /\ pc # "idle" /\ ~FieldsUnset /\ AllWellFormed) =>
        /\ pc = "returned"
        /\ \A i \in 1..Len(FieldsIn) :
               Unresolvable(FieldsIn[i]) =>
                   /\ FieldsOut[i].kind = "DisplayLookup"
                   /\ FieldsOut[i].field = Get(FieldsIn[i].field)
                   /\ FieldsOut[i].title = None

C8_Witness ==
    /\ DetailsReturned /\ ~FieldsUnset
    /\ Len(FieldsIn) = 2
    /\ Unresolvable(FieldsIn[1]) /\ DeclaredNamed(Get(FieldsIn[1].field)) = {}
    /\ Unresolvable(FieldsIn[2]) /\ DeclaredNamed(Get(FieldsIn[2].field)) # {}
    /\ FieldsOut[1].title = None /\ FieldsOut[2].title = None

(* C9: every constructed Details has a `fields` list, given or omitted,
   also for a data model that declares no attribute. *)
C9_FieldsPopulated == DetailsReturned => Get(result).fields # None

C9_Witness ==
    /\ DetailsReturned /\ FieldsUnset
    /\ Declared = <<>>
    /\ Get(result).fields = Some(<<>>)

(* C10: the JSON schema of Details lists `fields` among the required
   attributes, although the field has a default as constructor input. *)
C10_RequiredOnOutput ==
    (args.op = "JsonSchema" /\ pc = "returned") =>
        /\ \E f \in Range(args.kw) : f.name = "fields" /\ ~f.required
        /\ "fields" \in Range(Get(result).required)

C10_Witness ==
    /\ args.op = "JsonSchema" /\ pc = "returned"
    /\ Get(result).required = <<"data", "fields">>

====
